---- MODULE Spec2Model ----
(***************************************************************************)
(* BitSlow marketplace server: the coin ledger (generate / buy), the token *)
(* check in front of it and the two response caches.                       *)
(*                                                                         *)
(* The server is one Bun process with one in-memory SQLite connection.     *)
(* A handler runs to completion between its awaits, so every action below  *)
(* is one synchronous stretch of a handler (or one statement of the        *)
(* BEGIN..COMMIT block, during which `running` keeps every other handler   *)
(* from being scheduled).                                                  *)
(***************************************************************************)
EXTENDS Integers, Sequences, FiniteSets, TLC

(* ------------------------------ bounds -------------------------------- *)
\* Each bit is drawn from 1..BitMax (10 in the program, scaled down).
BitMax == 2
\* Budget of the draw loop (10000 in the program, scaled down).
MAX_ATTEMPTS == 2
\* Number of requests (buy / generate) the model lets arrive.
MaxReqs == 2
\* The clock stops advancing at MaxTime.
MaxTime == 3
\* Number of history requests the model lets arrive.
MaxProjections == 2

\* Cache entries expire after this many ticks (2 * 60 * 1000 ms in the program).
CACHE_EXPIRY_TIME == 1

(* --------------------------- value domains ---------------------------- *)
\* SQL NULL / JavaScript null in an id column.
NULL == 0

Clients == {1, 2}
Reqs == 1..MaxReqs

\* 10 * 10 * 10 in the program.
MAX_COMBINATIONS == BitMax * BitMax * BitMax

\* Triples as a bug would have it: the `+ 1` of the draw is missing, each bit
\* is drawn from 0..BitMax-1.
TriplesFromZero == (0..(BitMax - 1)) \X (0..(BitMax - 1)) \X (0..(BitMax - 1))

\* The triples a draw can give: Math.floor(Math.random() * 10) + 1 three times.
Triples == (1..BitMax) \X (1..BitMax) \X (1..BitMax)

\* Authorization headers a client may send: two issued tokens, a token the
\* table never held, and no Bearer header at all.
IssuedTokens == {"t1", "t2"}
Headers == IssuedTokens \cup {"bogus", "none"}

\* Values a generate body may carry in data.value.
BodyValues == {[type |-> "missing", num |-> 0], [type |-> "string", num |-> 1],
               [type |-> "number", num |-> 0], [type |-> "number", num |-> -1],
               [type |-> "number", num |-> 1], [type |-> "number", num |-> 2]}

VARIABLES
    coins,            \* table coins: coin_id (the index) -> row
    transactions,     \* table transactions: id (the index) -> row
    auth_tokens,      \* table auth_tokens: token -> [client_id, expires_at]
    txActive,         \* a BEGIN TRANSACTION is open on the connection
    saved,            \* tables as they were at BEGIN (what ROLLBACK restores),
                      \* kept until the handler returns
    coinCache,        \* Map of cache key -> [data, timestamp]
    transactionCache, \* Map of cache key -> [data, timestamp]
    now,              \* Date.now()
    running,          \* request inside its synchronous block, or NULL
    req,              \* per request: position, inputs, locals, response
    seeded,           \* number of coin rows seedDatabase left
    history,          \* GET /api/coins/:id/history: the last response, how
                      \* many were given, and the tables it was computed from
    combinations,     \* GET /api/coins/available-combinations: the last response
    logout            \* POST /api/logout: the last response, and the token it named

vars == <<coins, transactions, auth_tokens, txActive, saved, coinCache,
          transactionCache, now, running, req, seeded, history, combinations, logout>>

(* ------------------------------- seed --------------------------------- *)
\* i-th triple of [1,BitMax]^3 in lexicographic order.
TripleOf(i) ==
    <<((i - 1) \div (BitMax * BitMax)) + 1,
      (((i - 1) \div BitMax) % BitMax) + 1,
      ((i - 1) % BitMax) + 1>>

\* A seeded store of k coins with pairwise distinct triples: coins 1 and 2
\* are for sale, coin 3 was minted by client 1 and resold to client 2, the
\* others belong to client 1.
SeedCoins(k) ==
    [i \in 1..k |->
        [bit1 |-> TripleOf(i)[1], bit2 |-> TripleOf(i)[2], bit3 |-> TripleOf(i)[3],
         value |-> i + 4,
         client_id |-> IF i <= 2 THEN NULL ELSE IF i = 3 THEN 2 ELSE 1]]

SeedTransactions ==
    <<[coin_id |-> 3, buyer_id |-> 1, seller_id |-> NULL, amount |-> 7,
       transaction_date |-> 0],
      [coin_id |-> 3, buyer_id |-> 2, seller_id |-> 1, amount |-> 7,
       transaction_date |-> 1]>>

SeedCounts == {MAX_COMBINATIONS - 2, MAX_COMBINATIONS - 1, MAX_COMBINATIONS}

\* t1 belongs to client 1 and outlives the model's clock; t2 belongs to
\* client 2 and expires once the clock passes 2.
SeedTokens ==
    [t \in IssuedTokens |->
        IF t = "t1" THEN [client_id |-> 1, expires_at |-> MaxTime + 1]
                    ELSE [client_id |-> 2, expires_at |-> 2]]

NoTables == [coins |-> <<>>, transactions |-> <<>>]

NoResp == [status |-> 0, message |-> "", coin_id |-> NULL]

IdleReq ==
    [pc |-> "idle", kind |-> "none", token |-> "none", userId |-> NULL,
     expiresAt |-> 0, coin_id |-> NULL, value |-> 0, coinValue |-> 0,
     bits |-> <<>>, attempts |-> 0, resp |-> NoResp]

EmptyCache == [k \in {} |-> 0]

NoCombinations == [status |-> 0, available |-> FALSE, used |-> 0, total |-> 0]

NoLogout == [status |-> 0, success |-> FALSE, token |-> "none"]

NoHistory ==
    [n |-> 0, coin_id |-> NULL, status |-> 0, message |-> "", events |-> <<>>,
     at |-> NoTables]

Init ==
    /\ seeded \in SeedCounts
    /\ coins = SeedCoins(seeded)
    /\ transactions = SeedTransactions
    /\ auth_tokens = SeedTokens
    /\ txActive = FALSE
    /\ saved = NoTables
    /\ coinCache = EmptyCache
    /\ transactionCache = EmptyCache
    /\ now = 2
    /\ running = NULL
    /\ req = [r \in Reqs |-> IdleReq]
    /\ history = NoHistory
    /\ combinations = NoCombinations
    /\ logout = NoLogout

(* ----------------------------- responses ------------------------------ *)
Resp(status, message) == [status |-> status, message |-> message, coin_id |-> NULL]

NoTokenProvided == Resp(401, "No token provided")
InvalidToken == Resp(401, "Invalid or expired token")
CoinIdRequired == Resp(400, "Coin ID is required")
CoinNotFound == Resp(404, "Coin not found")
AlreadyOwned == Resp(400, "Coin already has an owner")
ServerErrorDuringPurchase == Resp(500, "Server error during purchase")
ValidValueRequired == Resp(400, "Valid monetary value is required")
ExhaustionMessage == "Could not find unique bit combination after many attempts"
\* `Error generating coin: ${errorMessage}`: the message names the error.
ErrorGeneratingCoin(errorMessage) == Resp(500, errorMessage)
\* The catch block itself threw: Bun answers for the rejected handler.
UnhandledRejection == Resp(500, "cannot rollback - no transaction is active")
Purchased(coinId) ==
    [status |-> 200, message |-> "Coin purchased successfully", coin_id |-> coinId]
Generated(coinId) ==
    [status |-> 200, message |-> "Coin generated successfully", coin_id |-> coinId]

\* A handler returns: its locals die; the kind of request, the coin a buy
\* asked for and the response stay on record.
Done(r, response) ==
    [req EXCEPT ![r] =
        [IdleReq EXCEPT !.pc = "done", !.kind = req[r].kind,
                        !.coin_id = IF req[r].kind = "buy" THEN req[r].coin_id ELSE NULL,
                        !.resp = response]]

Goto(r, pc) == [req EXCEPT ![r].pc = pc]

(* ---------------------------- TokenManager ---------------------------- *)
\* DatabaseTokenStorage.get: the row of the token, or null.
StorageGet(token) ==
    IF token \in DOMAIN auth_tokens
    THEN [userId |-> auth_tokens[token].client_id,
          expiresAt |-> auth_tokens[token].expires_at]
    ELSE [userId |-> NULL, expiresAt |-> 0]

\* DatabaseTokenStorage.delete: DELETE FROM auth_tokens WHERE token = ?
StorageDelete(token) ==
    [t \in DOMAIN auth_tokens \ {token} |-> auth_tokens[t]]

\* ExpiredAt as a bug would have it: the expiry is never looked at.
NeverExpired(time, expiresAt) == FALSE

\* Date.now() > tokenData.expiresAt
ExpiredAt(time, expiresAt) == time > expiresAt

(* ------------------- request arrival and token check ------------------- *)
DbUnchanged == UNCHANGED <<coins, transactions, txActive, saved>>
CachesUnchanged == UNCHANGED <<coinCache, transactionCache>>

\* Handler entry up to the first await: the Authorization header check, then
\* verifyToken up to `await TokenManager.storage.get(token)`.
Arrive(r, kind, header) ==
    /\ running = NULL
    /\ req[r].pc = "idle"
    /\ IF r = 1 THEN TRUE ELSE req[r - 1].pc # "idle"
    /\ IF header = "none"
       THEN req' = [req EXCEPT ![r] = [IdleReq EXCEPT !.pc = "done", !.kind = kind,
                                                       !.resp = NoTokenProvided]]
       ELSE req' = [req EXCEPT ![r].pc = "verify_get", ![r].kind = kind,
                               ![r].token = header,
                               ![r].userId = StorageGet(header).userId,
                               ![r].expiresAt = StorageGet(header).expiresAt]
    /\ DbUnchanged /\ CachesUnchanged
    /\ UNCHANGED <<auth_tokens, now, running, seeded, history, combinations, logout>>

\* verifyToken after storage.get resolved, and the handler after verifyToken
\* resolved: null and 401 for an unknown token; delete, null and 401 for an
\* expired one; otherwise enter the try block and start `await req.json()`.
\* (The awaits in between suspend code that touches only its own locals, so
\* the stretches around them are taken as one step.)
VerifyToken(r) ==
    /\ running = NULL
    /\ req[r].pc = "verify_get"
    /\ IF req[r].userId = NULL
       THEN /\ req' = Done(r, InvalidToken)
            /\ UNCHANGED auth_tokens
       ELSE IF ExpiredAt(now, req[r].expiresAt)
       THEN /\ auth_tokens' = StorageDelete(req[r].token)
            /\ req' = Done(r, InvalidToken)
       ELSE /\ req' = [req EXCEPT ![r].pc = "json", ![r].expiresAt = 0]
            /\ UNCHANGED auth_tokens
    /\ DbUnchanged /\ CachesUnchanged
    /\ UNCHANGED <<now, running, seeded, history, combinations, logout>>

(* --------------------------- POST /api/logout -------------------------- *)
\* result.changes > 0 of the DELETE
Removed(token) == token \in DOMAIN auth_tokens

\* POST /api/logout: the Authorization header check, then removeToken; the
\* response says whether a row was deleted.  (storage.delete runs its DELETE
\* before the handler first suspends, and what follows touches only locals.)
Logout(header) ==
    /\ running = NULL
    /\ IF header = "none"
       THEN /\ logout' = [status |-> 401, success |-> FALSE, token |-> header]
            /\ UNCHANGED auth_tokens
       ELSE /\ auth_tokens' = StorageDelete(header)
            /\ logout' = [status |-> 200, success |-> Removed(header), token |-> header]
    /\ DbUnchanged /\ CachesUnchanged
    /\ UNCHANGED <<now, running, req, seeded, history, combinations>>

(* --------------------------- the connection --------------------------- *)
Tables == [coins |-> coins, transactions |-> transactions]

\* RollbackTables as a bug would have it: the transaction is closed, its
\* changes stay.
RollbackKeepsChanges ==
    /\ UNCHANGED <<coins, transactions>>
    /\ txActive' = FALSE

\* RollbackTables as a bug would have it: the tables are restored, the
\* transaction stays open.
RollbackLeavesOpen ==
    /\ coins' = saved.coins
    /\ transactions' = saved.transactions
    /\ UNCHANGED txActive

\* db.exec("ROLLBACK"): the tables as they were at BEGIN.
RollbackTables ==
    /\ coins' = saved.coins
    /\ transactions' = saved.transactions
    /\ txActive' = FALSE

\* The catch block of buy and of generate, entered with the error thrown:
\* db.exec("ROLLBACK"), which itself throws when no transaction is open (Bun
\* then answers for the rejected handler), then the 500 response.
CatchBlock(r, error) ==
    /\ IF txActive
       THEN /\ RollbackTables
            /\ req' = Done(r, IF req[r].kind = "buy"
                              THEN ServerErrorDuringPurchase
                              ELSE ErrorGeneratingCoin(error))
       ELSE /\ UNCHANGED <<coins, transactions, txActive>>
            /\ req' = Done(r, UnhandledRejection)
    /\ saved' = NoTables
    /\ running' = NULL

\* db.exec("BEGIN TRANSACTION") by request r, which then goes on as `next`
\* says; SQLite refuses to nest transactions, and the error lands in the
\* catch block.
Begin(r, next) ==
    IF txActive
    THEN CatchBlock(r, "cannot start a transaction within a transaction")
    ELSE /\ req' = next
         /\ txActive' = TRUE
         /\ saved' = Tables
         /\ running' = r
         /\ UNCHANGED <<coins, transactions>>

\* A statement of the BEGIN..COMMIT block throws (a storage error, a value
\* SQLite cannot bind): the catch block runs.  The error message stands for
\* the statement that threw.
StorageError(r) ==
    /\ running = r
    /\ req[r].pc \in {"b_select", "b_update", "b_insert", "b_commit",
                      "g_bits", "g_coin", "g_tx", "g_commit"}
    /\ CatchBlock(r, req[r].pc)
    /\ CachesUnchanged
    /\ UNCHANGED <<auth_tokens, now, seeded, history, combinations, logout>>

\* req.json() rejects (the body is no JSON): the catch block runs, with no
\* transaction begun.
ParseFail(r) ==
    /\ running = NULL
    /\ req[r].pc = "json"
    /\ CatchBlock(r, "Unexpected token")
    /\ CachesUnchanged
    /\ UNCHANGED <<auth_tokens, now, seeded, history, combinations, logout>>

(* ------------------------ POST /api/coins/buy ------------------------- *)
\* req.json() resolved with data.coin_id = coinId (0: missing or falsy):
\* validation, then BEGIN TRANSACTION.
BuyBegin(r, coinId) ==
    /\ running = NULL
    /\ req[r].pc = "json"
    /\ req[r].kind = "buy"
    /\ IF coinId = NULL
       THEN /\ req' = Done(r, CoinIdRequired)
            /\ UNCHANGED <<coins, transactions, txActive, saved, running>>
       ELSE Begin(r, [req EXCEPT ![r].pc = "b_select", ![r].coin_id = coinId])
    /\ CachesUnchanged
    /\ UNCHANGED <<auth_tokens, now, seeded, history, combinations, logout>>

\* SelectCoin as a bug would have it: the WHERE clause is lost, the first row
\* of the table answers for every id.
SelectFirstRow(coinId) ==
    [found |-> TRUE, client_id |-> coins[1].client_id, value |-> coins[1].value]

\* SELECT coin_id, client_id, value FROM coins WHERE coin_id = ?
SelectCoin(coinId) ==
    IF coinId \in DOMAIN coins
    THEN [found |-> TRUE, client_id |-> coins[coinId].client_id,
          value |-> coins[coinId].value]
    ELSE [found |-> FALSE, client_id |-> NULL, value |-> 0]

\* HasOwner as a bug would have it: the owner check is missing.
HasOwnerUnchecked(coin) == FALSE

\* HasOwner as a bug would have it: the comparison is inverted.
HasOwnerInverted(coin) == coin.client_id = NULL

\* if (coin.client_id !== null): the coin already has an owner.
HasOwner(coin) == coin.client_id # NULL

\* The existence and owner checks under the transaction.
BuySelect(r) ==
    /\ running = r
    /\ req[r].pc = "b_select"
    /\ LET coin == SelectCoin(req[r].coin_id) IN
       IF ~coin.found
       THEN /\ RollbackTables
            /\ req' = Done(r, CoinNotFound)
            /\ saved' = NoTables
            /\ running' = NULL
       ELSE IF HasOwner(coin)
       THEN /\ RollbackTables
            /\ req' = Done(r, AlreadyOwned)
            /\ saved' = NoTables
            /\ running' = NULL
       ELSE /\ req' = [req EXCEPT ![r].pc = "b_update", ![r].coinValue = coin.value]
            /\ UNCHANGED <<coins, transactions, txActive, saved, running>>
    /\ CachesUnchanged
    /\ UNCHANGED <<auth_tokens, now, seeded, history, combinations, logout>>

\* UpdateOwner as a bug would have it: the UPDATE has no WHERE clause.
UpdateEveryOwner(coinId, buyerId) ==
    [i \in DOMAIN coins |-> [coins[i] EXCEPT !.client_id = buyerId]]

\* UPDATE coins SET client_id = ? WHERE coin_id = ?
UpdateOwner(coinId, buyerId) ==
    [coins EXCEPT ![coinId].client_id = buyerId]

BuyUpdate(r) ==
    /\ running = r
    /\ req[r].pc = "b_update"
    /\ coins' = UpdateOwner(req[r].coin_id, req[r].userId)
    /\ req' = Goto(r, "b_insert")
    /\ CachesUnchanged
    /\ UNCHANGED <<transactions, txActive, saved, auth_tokens, now, running, seeded, history, combinations, logout>>

\* InsertTransaction as a bug would have it: the row replaces the last row of
\* the table.
InsertTransactionOverwrites(buyerId, coinId, date, amount) ==
    [transactions EXCEPT ![Len(transactions)] =
        [coin_id |-> coinId, buyer_id |-> buyerId, seller_id |-> NULL,
         amount |-> amount, transaction_date |-> date]]

\* InsertTransaction as a bug would have it: buyer_id and seller_id are bound
\* the other way round.
InsertTransactionSwapped(buyerId, coinId, date, amount) ==
    Append(transactions,
           [coin_id |-> coinId, buyer_id |-> NULL, seller_id |-> buyerId,
            amount |-> amount, transaction_date |-> date])

\* InsertTransaction as a bug would have it: the buyer is bound to seller_id
\* as well.
InsertTransactionWithSeller(buyerId, coinId, date, amount) ==
    Append(transactions,
           [coin_id |-> coinId, buyer_id |-> buyerId, seller_id |-> buyerId,
            amount |-> amount, transaction_date |-> date])

\* INSERT INTO transactions (buyer_id, seller_id, coin_id, transaction_date,
\* amount) VALUES (?, NULL, ?, ?, ?)
InsertTransaction(buyerId, coinId, date, amount) ==
    Append(transactions,
           [coin_id |-> coinId, buyer_id |-> buyerId, seller_id |-> NULL,
            amount |-> amount, transaction_date |-> date])

BuyInsert(r) ==
    /\ running = r
    /\ req[r].pc = "b_insert"
    /\ transactions' =
          InsertTransaction(req[r].userId, req[r].coin_id, now, req[r].coinValue)
    /\ req' = Goto(r, "b_commit")
    /\ CachesUnchanged
    /\ UNCHANGED <<coins, txActive, saved, auth_tokens, now, running, seeded, history, combinations, logout>>

\* db.exec("COMMIT")
BuyCommit(r) ==
    /\ running = r
    /\ req[r].pc = "b_commit"
    /\ txActive' = FALSE
    /\ req' = Goto(r, "b_clear")
    /\ CachesUnchanged
    /\ UNCHANGED <<coins, transactions, saved, auth_tokens, now, running, seeded, history, combinations, logout>>

\* transactionCache.clear(); coinCache.clear(); the 200 response.
\* BuyClear as a bug would have it: only the coin cache is cleared.
BuyClearKeepsTransactionCache(r) ==
    /\ running = r
    /\ req[r].pc = "b_clear"
    /\ coinCache' = EmptyCache
    /\ req' = Done(r, Purchased(req[r].coin_id))
    /\ saved' = NoTables
    /\ running' = NULL
    /\ UNCHANGED <<coins, transactions, txActive, auth_tokens, now, seeded, history,
                   combinations, logout, transactionCache>>

BuyClear(r) ==
    /\ running = r
    /\ req[r].pc = "b_clear"
    /\ transactionCache' = EmptyCache
    /\ coinCache' = EmptyCache
    /\ req' = Done(r, Purchased(req[r].coin_id))
    /\ saved' = NoTables
    /\ running' = NULL
    /\ UNCHANGED <<coins, transactions, txActive, auth_tokens, now, seeded, history, combinations, logout>>

(* ---------------------- POST /api/coins/generate ---------------------- *)
\* InvalidValue as a bug would have it: the test for a negative number is
\* missing.
InvalidValueZeroOnly(v) == v.type # "number" \/ v.num = 0

\* !data.value || typeof data.value !== "number" || data.value <= 0
InvalidValue(v) == v.type # "number" \/ v.num = 0 \/ v.num <= 0

\* req.json() resolved with data.value = v: validation, then BEGIN TRANSACTION.
GenBegin(r, v) ==
    /\ running = NULL
    /\ req[r].pc = "json"
    /\ req[r].kind = "generate"
    /\ IF InvalidValue(v)
       THEN /\ req' = Done(r, ValidValueRequired)
            /\ UNCHANGED <<coins, transactions, txActive, saved, running>>
       ELSE Begin(r, [req EXCEPT ![r].pc = "g_bits", ![r].value = v.num])
    /\ CachesUnchanged
    /\ UNCHANGED <<auth_tokens, now, seeded, history, combinations, logout>>

\* ExistingCombinations as a bug would have it: the Set is never filled.
NoExistingCombinations == {}

\* SELECT bit1, bit2, bit3 FROM coins, as the Set of `${bit1}-${bit2}-${bit3}`
\* keys (a key determines its three bits, so the triple stands for it).
ExistingCombinations ==
    {<<coins[i].bit1, coins[i].bit2, coins[i].bit3>> : i \in DOMAIN coins}

\* What generateUniqueBits throws.
Throw == <<>>

\* DrawLoop as a bug would have it: the first triple drawn is returned,
\* taken or not.
DrawOnce(existing, attempts) == Triples

\* The do..while of generateUniqueBits after `attempts` draws: every result
\* some sequence of Math.random() values leads to.  A round draws a triple and
\* counts it; it throws once the count passes MAX_ATTEMPTS, returns the triple
\* when it is free, and goes round again when it is taken.
RECURSIVE DrawLoop(_, _)
DrawLoop(existing, attempts) ==
    IF attempts + 1 > MAX_ATTEMPTS
    THEN {Throw}
    ELSE (Triples \ existing) \cup
         (IF Triples \cap existing # {} THEN DrawLoop(existing, attempts + 1) ELSE {})

generateUniqueBits == DrawLoop(ExistingCombinations, 0)

GenBits(r) ==
    /\ running = r
    /\ req[r].pc = "g_bits"
    /\ \E out \in generateUniqueBits :
          IF out = Throw
          THEN CatchBlock(r, ExhaustionMessage)
          ELSE /\ req' = [req EXCEPT ![r].pc = "g_coin", ![r].bits = out]
               /\ DbUnchanged
               /\ UNCHANGED running
    /\ CachesUnchanged
    /\ UNCHANGED <<auth_tokens, now, seeded, history, combinations, logout>>

(* ------------- generateUniqueBits, one round of the loop at a time ------------- *)
\* The coins table holding exactly the triples of S among the first i triples,
\* in lexicographic order, every coin for sale.
RECURSIVE TableUpTo(_, _)
TableUpTo(S, i) ==
    IF i = 0
    THEN <<>>
    ELSE IF TripleOf(i) \in S
    THEN Append(TableUpTo(S, i - 1),
                [bit1 |-> TripleOf(i)[1], bit2 |-> TripleOf(i)[2],
                 bit3 |-> TripleOf(i)[3], value |-> 5, client_id |-> NULL])
    ELSE TableUpTo(S, i - 1)

\* Sets of existing triples the loop is started on: none, one, all, and all
\* but one or two.
ExistingSets ==
    {{}, Triples} \cup {{a} : a \in Triples}
                  \cup {Triples \ {a, b} : a, b \in Triples}

\* Request 1, a generate of client 1, has begun its transaction and filled
\* existingCombinations from the coins table; the do..while is about to start.
InitDraw ==
    /\ coins \in {TableUpTo(S, MAX_COMBINATIONS) : S \in ExistingSets}
    /\ seeded = Len(coins)
    /\ transactions = <<>>
    /\ auth_tokens = SeedTokens
    /\ txActive = TRUE
    /\ saved = [coins |-> coins, transactions |-> <<>>]
    /\ coinCache = EmptyCache
    /\ transactionCache = EmptyCache
    /\ now = 2
    /\ running = 1
    /\ req = [r \in Reqs |->
                IF r = 1
                THEN [IdleReq EXCEPT !.pc = "g_draw", !.kind = "generate",
                                     !.userId = 1, !.value = 1]
                ELSE IdleReq]
    /\ history = NoHistory
    /\ combinations = NoCombinations
    /\ logout = NoLogout

\* DrawStep as a bug would have it: attempts++ is missing.
DrawStepNoCount(r) ==
    /\ running = r
    /\ req[r].pc = "g_draw"
    /\ \E bits \in Triples :
          IF bits \in ExistingCombinations
          THEN /\ req' = [req EXCEPT ![r].bits = bits]
               /\ DbUnchanged
               /\ UNCHANGED running
          ELSE /\ req' = [req EXCEPT ![r].pc = "g_coin", ![r].bits = bits]
               /\ DbUnchanged
               /\ UNCHANGED running
    /\ CachesUnchanged
    /\ UNCHANGED <<auth_tokens, now, seeded, history, combinations, logout>>

\* DrawStep as a bug would have it: the budget check reads attempts >=
\* MAX_ATTEMPTS, the loop throws one draw early.
DrawStepThrowsEarly(r) ==
    /\ running = r
    /\ req[r].pc = "g_draw"
    /\ \E bits \in Triples :
          LET attempts == req[r].attempts + 1 IN
          IF attempts >= MAX_ATTEMPTS
          THEN CatchBlock(r, ExhaustionMessage)
          ELSE IF bits \in ExistingCombinations
          THEN /\ req' = [req EXCEPT ![r].bits = bits, ![r].attempts = attempts]
               /\ DbUnchanged
               /\ UNCHANGED running
          ELSE /\ req' = [req EXCEPT ![r].pc = "g_coin", ![r].bits = bits,
                                     ![r].attempts = attempts]
               /\ DbUnchanged
               /\ UNCHANGED running
    /\ CachesUnchanged
    /\ UNCHANGED <<auth_tokens, now, seeded, history, combinations, logout>>

\* One round of the do..while: draw three bits, count the attempt, throw when
\* the count has passed MAX_ATTEMPTS, go round again when the Set has the key,
\* return the bits otherwise.
DrawStep(r) ==
    /\ running = r
    /\ req[r].pc = "g_draw"
    /\ \E bits \in Triples :
          LET attempts == req[r].attempts + 1 IN
          IF attempts > MAX_ATTEMPTS
          THEN CatchBlock(r, ExhaustionMessage)
          ELSE IF bits \in ExistingCombinations
          THEN /\ req' = [req EXCEPT ![r].bits = bits, ![r].attempts = attempts]
               /\ DbUnchanged
               /\ UNCHANGED running
          ELSE /\ req' = [req EXCEPT ![r].pc = "g_coin", ![r].bits = bits,
                                     ![r].attempts = attempts]
               /\ DbUnchanged
               /\ UNCHANGED running
    /\ CachesUnchanged
    /\ UNCHANGED <<auth_tokens, now, seeded, history, combinations, logout>>

NextDraw == \E r \in Reqs : DrawStep(r)

\* The draw loop alone.  The loop has no await: once entered, its rounds run
\* one after the other, which is the weak fairness of its step.
SpecDraw == InitDraw /\ [][NextDraw]_vars /\ WF_vars(NextDraw)

\* InsertCoin as a bug would have it: value and client_id are bound in the
\* wrong order.
InsertCoinSwapped(bits, value, userId) ==
    Append(coins, [bit1 |-> bits[1], bit2 |-> bits[2], bit3 |-> bits[3],
                   value |-> userId, client_id |-> value])

\* InsertCoin as a bug would have it: the coin is inserted without an owner.
InsertCoinUnowned(bits, value, userId) ==
    Append(coins, [bit1 |-> bits[1], bit2 |-> bits[2], bit3 |-> bits[3],
                   value |-> value, client_id |-> NULL])

\* INSERT INTO coins (bit1, bit2, bit3, value, client_id) VALUES (?, ?, ?, ?, ?)
InsertCoin(bits, value, userId) ==
    Append(coins, [bit1 |-> bits[1], bit2 |-> bits[2], bit3 |-> bits[3],
                   value |-> value, client_id |-> userId])

\* Number(result.lastInsertRowid)
LastInsertRowid(table) == Len(table)

GenInsertCoin(r) ==
    /\ running = r
    /\ req[r].pc = "g_coin"
    /\ coins' = InsertCoin(req[r].bits, req[r].value, req[r].userId)
    /\ req' = [req EXCEPT ![r].pc = "g_tx", ![r].coin_id = LastInsertRowid(coins')]
    /\ CachesUnchanged
    /\ UNCHANGED <<transactions, txActive, saved, auth_tokens, now, running, seeded, history, combinations, logout>>

GenInsertTx(r) ==
    /\ running = r
    /\ req[r].pc = "g_tx"
    /\ transactions' =
          InsertTransaction(req[r].userId, req[r].coin_id, now, req[r].value)
    /\ req' = Goto(r, "g_commit")
    /\ CachesUnchanged
    /\ UNCHANGED <<coins, txActive, saved, auth_tokens, now, running, seeded, history, combinations, logout>>

\* db.exec("COMMIT")
GenCommit(r) ==
    /\ running = r
    /\ req[r].pc = "g_commit"
    /\ txActive' = FALSE
    /\ req' = Goto(r, "g_clear")
    /\ CachesUnchanged
    /\ UNCHANGED <<coins, transactions, saved, auth_tokens, now, running, seeded, history, combinations, logout>>

\* GenClear as a bug would have it: only the transaction cache is cleared.
GenClearKeepsCoinCache(r) ==
    /\ running = r
    /\ req[r].pc = "g_clear"
    /\ transactionCache' = EmptyCache
    /\ req' = Done(r, Generated(req[r].coin_id))
    /\ saved' = NoTables
    /\ running' = NULL
    /\ UNCHANGED <<coins, transactions, txActive, auth_tokens, now, seeded, history,
                   combinations, logout, coinCache>>

\* transactionCache.clear(); coinCache.clear(); the 200 response.
GenClear(r) ==
    /\ running = r
    /\ req[r].pc = "g_clear"
    /\ transactionCache' = EmptyCache
    /\ coinCache' = EmptyCache
    /\ req' = Done(r, Generated(req[r].coin_id))
    /\ saved' = NoTables
    /\ running' = NULL
    /\ UNCHANGED <<coins, transactions, txActive, auth_tokens, now, seeded, history, combinations, logout>>

(* --------------------------- paginated reads -------------------------- *)
Pages == {1}
PageSizes == {15}

\* page > 0 ? page : 1
ValidPage(page) == IF page > 0 THEN page ELSE 1
\* pageSize > 0 && pageSize <= 100 ? pageSize : 15
ValidPageSize(pageSize) == IF pageSize > 0 /\ pageSize <= 100 THEN pageSize ELSE 15

\* LIMIT ? OFFSET ? over an ordered result.
LimitOffset(rows, limit, offset) ==
    SubSeq(rows, offset + 1, IF offset + limit < Len(rows) THEN offset + limit ELSE Len(rows))

\* SELECT ... FROM coins c ... ORDER BY c.coin_id
CoinRows ==
    [i \in DOMAIN coins |->
        [coin_id |-> i, bit1 |-> coins[i].bit1, bit2 |-> coins[i].bit2,
         bit3 |-> coins[i].bit3, value |-> coins[i].value,
         client_id |-> coins[i].client_id]]

\* computeBitSlow(bit1, bit2, bit3): the display identity composed from the
\* three components and from nothing else.
computeBitSlow(bit1, bit2, bit3) == <<"BitSlow", bit1, bit2, bit3>>

\* EnhancedCoins as a bug would have it: the value is passed where the third
\* component belongs.
EnhancedCoinsFromValue(rows) ==
    [i \in DOMAIN rows |->
        [coin_id |-> rows[i].coin_id, bit1 |-> rows[i].bit1, bit2 |-> rows[i].bit2,
         bit3 |-> rows[i].bit3, value |-> rows[i].value,
         client_id |-> rows[i].client_id,
         computedBitSlow |-> computeBitSlow(rows[i].bit1, rows[i].bit2, rows[i].value)]]

\* coins.map(coin => ({...coin, computedBitSlow: computeBitSlow(coin.bit1,
\* coin.bit2, coin.bit3)}))
EnhancedCoins(rows) ==
    [i \in DOMAIN rows |->
        [coin_id |-> rows[i].coin_id, bit1 |-> rows[i].bit1, bit2 |-> rows[i].bit2,
         bit3 |-> rows[i].bit3, value |-> rows[i].value,
         client_id |-> rows[i].client_id,
         computedBitSlow |-> computeBitSlow(rows[i].bit1, rows[i].bit2, rows[i].bit3)]]

\* The response of GET /api/coins computed from the store.
CoinsPage(page, pageSize) ==
    [coins |-> LimitOffset(EnhancedCoins(CoinRows), ValidPageSize(pageSize),
                           (ValidPage(page) - 1) * ValidPageSize(pageSize)),
     total |-> Len(coins), page |-> ValidPage(page),
     pageSize |-> ValidPageSize(pageSize)]

\* Fresh as a bug would have it: an entry exactly CACHE_EXPIRY_TIME old still
\* counts as fresh.
FreshInclusive(cache, key) ==
    /\ key \in DOMAIN cache
    /\ now - cache[key].timestamp <= CACHE_EXPIRY_TIME

\* cachedData && now - cachedData.timestamp < CACHE_EXPIRY_TIME
Fresh(cache, key) ==
    /\ key \in DOMAIN cache
    /\ now - cache[key].timestamp < CACHE_EXPIRY_TIME

\* Map.set(key, entry)
MapSet(cache, key, entry) ==
    [k \in DOMAIN cache \cup {key} |-> IF k = key THEN entry ELSE cache[k]]

\* GET /api/coins: no await, the handler is one synchronous stretch.
GetCoins(page, pageSize) ==
    /\ running = NULL
    /\ LET cacheKey == <<"coins", page, pageSize>> IN
       IF Fresh(coinCache, cacheKey)
       THEN UNCHANGED coinCache
       ELSE coinCache' = MapSet(coinCache, cacheKey,
                                [data |-> CoinsPage(page, pageSize), timestamp |-> now])
    /\ DbUnchanged
    /\ UNCHANGED <<transactionCache, auth_tokens, now, running, req, seeded, history, combinations, logout>>

\* The orders ORDER BY t.transaction_date DESC may return the rows in: every
\* arrangement of the row ids with no earlier date in front of a later one.
DateDescOrders ==
    {p \in [DOMAIN transactions -> DOMAIN transactions] :
        /\ \A i, j \in DOMAIN transactions : i # j => p[i] # p[j]
        /\ \A i, j \in DOMAIN transactions :
              i < j => transactions[p[i]].transaction_date >=
                          transactions[p[j]].transaction_date}

\* SELECT ... FROM transactions t ... JOIN coins c ON t.coin_id = c.coin_id
TransactionRows(order) ==
    [i \in DOMAIN order |->
        [id |-> order[i], coin_id |-> transactions[order[i]].coin_id,
         amount |-> transactions[order[i]].amount,
         transaction_date |-> transactions[order[i]].transaction_date,
         seller_id |-> transactions[order[i]].seller_id,
         buyer_id |-> transactions[order[i]].buyer_id,
         bit1 |-> coins[transactions[order[i]].coin_id].bit1,
         bit2 |-> coins[transactions[order[i]].coin_id].bit2,
         bit3 |-> coins[transactions[order[i]].coin_id].bit3,
         value |-> coins[transactions[order[i]].coin_id].value]]

\* transactions.map(transaction => ({...transaction, computedBitSlow:
\* computeBitSlow(transaction.bit1, transaction.bit2, transaction.bit3)}))
EnhancedTransactions(rows) ==
    [i \in DOMAIN rows |->
        [id |-> rows[i].id, coin_id |-> rows[i].coin_id, amount |-> rows[i].amount,
         transaction_date |-> rows[i].transaction_date,
         seller_id |-> rows[i].seller_id, buyer_id |-> rows[i].buyer_id,
         bit1 |-> rows[i].bit1, bit2 |-> rows[i].bit2, bit3 |-> rows[i].bit3,
         value |-> rows[i].value,
         computedBitSlow |-> computeBitSlow(rows[i].bit1, rows[i].bit2, rows[i].bit3)]]

\* The response of GET /api/transactions (no filters) computed from the store.
TransactionsPage(page, pageSize, order) ==
    [transactions |-> LimitOffset(EnhancedTransactions(TransactionRows(order)),
                                  ValidPageSize(pageSize),
                                  (ValidPage(page) - 1) * ValidPageSize(pageSize)),
     total |-> Len(transactions), page |-> ValidPage(page),
     pageSize |-> ValidPageSize(pageSize)]

\* GET /api/transactions without filters: one synchronous stretch.
GetTransactions(page, pageSize) ==
    /\ running = NULL
    /\ LET cacheKey == <<"transactions", page, pageSize>> IN
       IF Fresh(transactionCache, cacheKey)
       THEN UNCHANGED transactionCache
       ELSE \E order \in DateDescOrders :
               transactionCache' =
                  MapSet(transactionCache, cacheKey,
                         [data |-> TransactionsPage(page, pageSize, order),
                          timestamp |-> now])
    /\ DbUnchanged
    /\ UNCHANGED <<coinCache, auth_tokens, now, running, req, seeded, history, combinations, logout>>

(* -------------------- GET /api/coins/:id/history ---------------------- *)
\* Number.parseInt of a path segment that is no number.
NaN == -1

\* SELECT name FROM clients WHERE id = ?; null for a null id.
ClientName(id) == IF id = NULL THEN "null" ELSE IF id = 1 THEN "client 1" ELSE "client 2"

\* date: "Current" of the last event.
Current == -1

\* DateAscOrders as a bug would have it: the WHERE clause is lost, the rows of
\* every coin are returned.
DateAscOrdersOfAllCoins(coinId) ==
    LET n == Len(transactions)
    IN  {p \in [1..n -> DOMAIN transactions] :
            /\ \A i, j \in 1..n : i # j => p[i] # p[j]
            /\ \A i, j \in 1..n :
                  i < j => transactions[p[i]].transaction_date <=
                              transactions[p[j]].transaction_date}

\* The orders ORDER BY t.transaction_date ASC may return the rows of coin
\* coinId in: every arrangement with no later date in front of an earlier one.
DateAscOrders(coinId) ==
    LET ids == {k \in DOMAIN transactions : transactions[k].coin_id = coinId}
        n == Cardinality(ids)
    IN  {p \in [1..n -> ids] :
            /\ \A i, j \in 1..n : i # j => p[i] # p[j]
            /\ \A i, j \in 1..n :
                  i < j => transactions[p[i]].transaction_date <=
                              transactions[p[j]].transaction_date}

\* TxEvent as a bug would have it: isFirstTransaction is never reset, every
\* row is pushed as the first one.
TxEventAlwaysFirst(tx, isFirstTransaction) ==
    [date |-> tx.transaction_date, owner_id |-> tx.buyer_id,
     owner_name |-> ClientName(tx.buyer_id), type |-> "generated",
     amount |-> tx.amount, previous_owner_id |-> NULL,
     previous_owner_name |-> "Original Issuer"]

\* The event pushed for the i-th row of the result.
TxEvent(tx, isFirstTransaction) ==
    IF isFirstTransaction
    THEN [date |-> tx.transaction_date, owner_id |-> tx.buyer_id,
          owner_name |-> ClientName(tx.buyer_id), type |-> "generated",
          amount |-> tx.amount, previous_owner_id |-> NULL,
          previous_owner_name |-> "Original Issuer"]
    ELSE [date |-> tx.transaction_date, owner_id |-> tx.buyer_id,
          owner_name |-> ClientName(tx.buyer_id), type |-> "transfer",
          amount |-> tx.amount, previous_owner_id |-> tx.seller_id,
          previous_owner_name |-> ClientName(tx.seller_id)]

\* The loop over the rows: ownershipHistory before the current event.
OwnershipHistory(order) ==
    [i \in DOMAIN order |-> TxEvent(transactions[order[i]], i = 1)]

\* CurrentOwner as a bug would have it: the owner is read from a field the
\* coin row does not have, so no current event names an owner.
CurrentOwnerUnset(coin, ownershipHistory) ==
    LET last == Len(ownershipHistory) IN
    [date |-> Current,
     owner_id |-> NULL,
     owner_name |-> "Available for Purchase",
     type |-> "current", amount |-> NULL,
     previous_owner_id |-> IF last > 0 THEN ownershipHistory[last].owner_id ELSE NULL,
     previous_owner_name |-> IF last > 0 THEN ownershipHistory[last].owner_name
                             ELSE "null"]

\* The current event: the owner in the coin row, 'Available for Purchase' for
\* none; the previous owner is the owner of the last event pushed.
CurrentOwner(coin, ownershipHistory) ==
    LET last == Len(ownershipHistory) IN
    [date |-> Current,
     owner_id |-> coin.client_id,
     owner_name |-> IF coin.client_id = NULL THEN "Available for Purchase"
                    ELSE ClientName(coin.client_id),
     type |-> "current", amount |-> NULL,
     previous_owner_id |-> IF last > 0 THEN ownershipHistory[last].owner_id ELSE NULL,
     previous_owner_name |-> IF last > 0 THEN ownershipHistory[last].owner_name
                             ELSE "null"]

\* What the handler answers.
HistoryResp(status, message, events) ==
    [status |-> status, message |-> message, events |-> events]

InvalidCoinId == HistoryResp(400, "Invalid coin ID", <<>>)
HistoryCoinNotFound == HistoryResp(404, "Coin not found", <<>>)
ErrorFetchingHistory == HistoryResp(500, "Error fetching coin history", <<>>)

\* The try block of the handler for coin id coinId: every response the store
\* allows (one per order the rows may come in).
project(coinId) ==
    IF coinId = NaN
    THEN {InvalidCoinId}
    ELSE LET coin == SelectCoin(coinId) IN
         IF ~coin.found
         THEN {HistoryCoinNotFound}
         ELSE {HistoryResp(200, "",
                           Append(OwnershipHistory(order),
                                  CurrentOwner(coin, OwnershipHistory(order)))) :
                  order \in DateAscOrders(coinId)}

\* GetHistory as a bug would have it: the handler clears the coin cache.
GetHistoryClearsCache(coinId) ==
    /\ running = NULL
    /\ history.n < MaxProjections
    /\ \E response \in project(coinId) \cup {ErrorFetchingHistory} :
          history' = [n |-> history.n + 1, coin_id |-> coinId,
                      status |-> response.status, message |-> response.message,
                      events |-> response.events, at |-> Tables]
    /\ coinCache' = EmptyCache
    /\ DbUnchanged
    /\ UNCHANGED <<transactionCache, auth_tokens, now, running, req, seeded, combinations, logout>>

\* GET /api/coins/:id/history: no await, one synchronous stretch; a query
\* that throws lands in the catch block.
GetHistory(coinId) ==
    /\ running = NULL
    /\ history.n < MaxProjections
    /\ \E response \in project(coinId) \cup {ErrorFetchingHistory} :
          history' = [n |-> history.n + 1, coin_id |-> coinId,
                      status |-> response.status, message |-> response.message,
                      events |-> response.events, at |-> Tables]
    /\ DbUnchanged /\ CachesUnchanged
    /\ UNCHANGED <<auth_tokens, now, running, req, seeded, combinations, logout>>

(* ---------------- GET /api/coins/available-combinations ---------------- *)
\* SELECT COUNT(*) as count FROM coins
ExistingCount == Len(coins)

\* Available as a bug would have it: the table may hold one coin more.
AvailableInclusive(count) == count <= MAX_COMBINATIONS

\* existingCount.count < MAX_COMBINATIONS
Available(count) == count < MAX_COMBINATIONS

\* The handler, one synchronous stretch: the count, the comparison and the
\* 200 response; a query that throws is answered 500 'Server error'.
GetAvailableCombinations ==
    /\ running = NULL
    /\ \/ combinations' = [status |-> 200, available |-> Available(ExistingCount),
                            used |-> ExistingCount, total |-> MAX_COMBINATIONS]
       \/ combinations' = [status |-> 500, available |-> FALSE, used |-> 0,
                            total |-> 0]
    /\ DbUnchanged /\ CachesUnchanged
    /\ UNCHANGED <<auth_tokens, now, running, req, seeded, history, logout>>

(* -------------------------------- time -------------------------------- *)
\* Time passes between two stretches of handler code.
Tick ==
    /\ running = NULL
    /\ now < MaxTime
    /\ now' = now + 1
    /\ DbUnchanged /\ CachesUnchanged
    /\ UNCHANGED <<auth_tokens, running, req, seeded, history, combinations, logout>>

(* ---------------------------- specification --------------------------- *)
\* data.coin_id of a buy request: missing, a seeded coin for sale, a seeded
\* coin with an owner, a generated coin, or an id no coin has.
BuyTargets == {NULL, 1, 2, 3} \cup ((seeded + 1)..(Len(coins) + 1))

Next ==
    \/ \E r \in Reqs, kind \in {"buy", "generate"}, header \in Headers :
          Arrive(r, kind, header)
    \/ \E r \in Reqs : VerifyToken(r)
    \/ \E r \in Reqs : ParseFail(r)
    \/ \E r \in Reqs : StorageError(r)
    \/ \E r \in Reqs : \E coinId \in BuyTargets : BuyBegin(r, coinId)
    \/ \E r \in Reqs : BuySelect(r)
    \/ \E r \in Reqs : BuyUpdate(r)
    \/ \E r \in Reqs : BuyInsert(r)
    \/ \E r \in Reqs : BuyCommit(r)
    \/ \E r \in Reqs : BuyClear(r)
    \/ \E r \in Reqs : \E v \in BodyValues : GenBegin(r, v)
    \/ \E r \in Reqs : GenBits(r)
    \/ \E r \in Reqs : GenInsertCoin(r)
    \/ \E r \in Reqs : GenInsertTx(r)
    \/ \E r \in Reqs : GenCommit(r)
    \/ \E r \in Reqs : GenClear(r)

\* The ledger: buy and generate requests in any interleaving.
Spec == Init /\ [][Next]_vars

NextReads ==
    \/ Next
    \/ \E page \in Pages, pageSize \in PageSizes : GetCoins(page, pageSize)
    \/ \E page \in Pages, pageSize \in PageSizes : GetTransactions(page, pageSize)
    \/ Tick

\* The ledger with the paginated reads and the clock.
SpecReads == Init /\ [][NextReads]_vars

\* Path segments of a history request: no number, a seeded coin for sale, the
\* resold seeded coin, and the id of the first generated coin (no coin's id
\* before that).
HistoryTargets == {NaN, 1, 3, seeded + 1}

NextHistory ==
    \/ Next
    \/ \E coinId \in HistoryTargets : GetHistory(coinId)

\* The ledger with the history requests.
SpecHistory == Init /\ [][NextHistory]_vars

NextCombinations ==
    \/ Next
    \/ GetAvailableCombinations

\* A store whose coins, for sale or owned, have no transaction rows yet.
InitNoTransactions ==
    /\ seeded \in SeedCounts
    /\ coins = SeedCoins(seeded)
    /\ transactions = <<>>
    /\ auth_tokens = SeedTokens
    /\ txActive = FALSE
    /\ saved = NoTables
    /\ coinCache = EmptyCache
    /\ transactionCache = EmptyCache
    /\ now = 2
    /\ running = NULL
    /\ req = [r \in Reqs |-> IdleReq]
    /\ history = NoHistory
    /\ combinations = NoCombinations
    /\ logout = NoLogout

\* The ledger and the history requests on that store.
SpecNoTransactions == InitNoTransactions /\ [][NextHistory]_vars

NextLogout ==
    \/ Next
    \/ \E header \in Headers : Logout(header)

\* The ledger with logout requests.
SpecLogout == Init /\ [][NextLogout]_vars

\* The ledger with the available-combinations read.
SpecCombinations == Init /\ [][NextCombinations]_vars

NextAll ==
    \/ Next
    \/ \E page \in Pages, pageSize \in PageSizes : GetCoins(page, pageSize)
    \/ \E page \in Pages, pageSize \in PageSizes : GetTransactions(page, pageSize)
    \/ \E coinId \in {3, seeded + 1} : GetHistory(coinId)

\* Every kind of request that reads or writes the coin store: generate, buy,
\* the paginated reads, and the history of the resold coin and of the first
\* generated coin (of no coin, before that).
SpecAll == Init /\ [][NextAll]_vars

(* ============================== claims =============================== *)
\* No handler is inside its BEGIN..COMMIT block: what other requests can see.
Observable == running = NULL

\* Rows of the transactions table that name coin c.
TxOf(c) == {k \in DOMAIN transactions : transactions[k].coin_id = c}

\* Seeded coins that seedDatabase left for sale.
ForSale == {c \in 1..seeded : SeedCoins(seeded)[c].client_id = NULL}

\* Finished buy requests for coin c that got response `response`.
BuysDone(c, response) ==
    {r \in Reqs : /\ req[r].pc = "done" /\ req[r].kind = "buy"
                  /\ req[r].coin_id = c /\ req[r].resp = response}

PurchasedResp(c) ==
    [status |-> 200, message |-> "Coin purchased successfully", coin_id |-> c]
AlreadyOwnedResp ==
    [status |-> 400, message |-> "Coin already has an owner", coin_id |-> NULL]

\* C1: no double sale.  Between requests, for every coin that was for sale:
\* at most one buy succeeded; a buy was refused with 'Coin already has an
\* owner' only if another buy succeeded; the coin has an owner exactly when a
\* buy succeeded; and the coin has as many transaction rows as successful
\* buys (a refused buy appended none).
C1_NoDoubleSale ==
    Observable =>
        \A c \in ForSale :
            /\ Cardinality(BuysDone(c, PurchasedResp(c))) <= 1
            /\ BuysDone(c, AlreadyOwnedResp) # {} => BuysDone(c, PurchasedResp(c)) # {}
            /\ coins[c].client_id # NULL <=> BuysDone(c, PurchasedResp(c)) # {}
            /\ Cardinality(TxOf(c)) = Cardinality(BuysDone(c, PurchasedResp(c)))

\* Two buys of coin 1 overlapped: request 1 arrived first and was refused, so
\* request 2 ran its block while request 1 was between its awaits.
C1_Witness ==
    /\ req[1].pc = "done" /\ req[1].kind = "buy" /\ req[1].coin_id = 1
    /\ req[1].resp = AlreadyOwnedResp
    /\ req[2].pc = "done" /\ req[2].kind = "buy" /\ req[2].resp = PurchasedResp(1)

TripleAt(i) == <<coins[i].bit1, coins[i].bit2, coins[i].bit3>>

\* C2: triple uniqueness.  In every state, also inside a transaction, no two
\* coin rows share (bit1, bit2, bit3).
C2_TripleUnique ==
    \A i, j \in DOMAIN coins : i # j => TripleAt(i) # TripleAt(j)

GeneratedResp(c) ==
    [status |-> 200, message |-> "Coin generated successfully", coin_id |-> c]

\* Two generate requests overlapped and both inserted a coin: request 2, which
\* arrived second, inserted first.
C2_Witness ==
    /\ req[1].pc = "done" /\ req[1].resp = GeneratedResp(seeded + 2)
    /\ req[2].pc = "done" /\ req[2].resp = GeneratedResp(seeded + 1)

\* Finished requests that were answered 200.
Succeeded(kind) ==
    {r \in Reqs : req[r].pc = "done" /\ req[r].kind = kind /\ req[r].resp.status = 200}

\* C3: atomicity of generate and buy.  Between requests no transaction is
\* open, and the store holds exactly the work of the requests that were
\* answered 200: one coin row per successful generate, one transaction row
\* per successful generate or buy; every generated coin has exactly one
\* transaction row, its mint row (buyer = owner, no seller, amount = value);
\* every coin that was for sale has an owner iff it has a transaction row, the
\* row of its purchase (buyer = owner).  A request that failed after BEGIN
\* (answered 500) therefore left neither a coin change nor a transaction row.
C3_Atomic ==
    Observable =>
        /\ ~txActive
        /\ Len(coins) = seeded + Cardinality(Succeeded("generate"))
        /\ Len(transactions) = Len(SeedTransactions)
                                 + Cardinality(Succeeded("generate"))
                                 + Cardinality(Succeeded("buy"))
        /\ \A c \in (seeded + 1)..Len(coins) :
              /\ Cardinality(TxOf(c)) = 1
              /\ \A k \in TxOf(c) :
                    /\ transactions[k].buyer_id = coins[c].client_id
                    /\ transactions[k].seller_id = NULL
                    /\ transactions[k].amount = coins[c].value
        /\ \A c \in ForSale :
              /\ coins[c].client_id # NULL <=> TxOf(c) # {}
              /\ \A k \in TxOf(c) : transactions[k].buyer_id = coins[c].client_id

\* A generate failed on COMMIT, after both of its inserts, and a buy of coin 1
\* failed after BEGIN: neither left a trace in the store.
C3_Witness ==
    /\ Observable
    /\ req[1].pc = "done" /\ req[1].kind = "generate"
    /\ req[1].resp = [status |-> 500, message |-> "g_commit", coin_id |-> NULL]
    /\ req[2].pc = "done" /\ req[2].kind = "buy" /\ req[2].coin_id = 1
    /\ req[2].resp = [status |-> 500, message |-> "Server error during purchase",
                      coin_id |-> NULL]
    /\ Len(coins) = seeded /\ coins[1].client_id = NULL
    /\ transactions = SeedTransactions

\* C4: postcondition of a successful generate(u, v).  After its COMMIT the
\* store is the store at BEGIN plus one coin row (owner u, value v, a triple
\* of [1,BitMax]^3) and plus one transaction row (that coin, buyer u, no
\* seller, amount v); the id answered is the id of the new coin.
C4_GeneratePost ==
    \A r \in Reqs :
        req[r].pc = "g_clear" =>
            LET c == Len(saved.coins) + 1
                t == Len(saved.transactions) + 1
            IN  /\ Len(coins) = c
                /\ SubSeq(coins, 1, c - 1) = saved.coins
                /\ coins[c].client_id = req[r].userId
                /\ coins[c].value = req[r].value
                /\ TripleAt(c) \in Triples
                /\ Len(transactions) = t
                /\ SubSeq(transactions, 1, t - 1) = saved.transactions
                /\ transactions[t].coin_id = c
                /\ transactions[t].buyer_id = req[r].userId
                /\ transactions[t].seller_id = NULL
                /\ transactions[t].amount = req[r].value
                /\ req[r].coin_id = c

\* Request 2 committed a generate for client 2 after request 1 had generated
\* a coin.
C4_Witness ==
    /\ req[2].pc = "g_clear" /\ req[2].userId = 2 /\ req[2].value = 2
    /\ req[1].pc = "done" /\ req[1].resp = GeneratedResp(seeded + 1)

\* C5: postcondition of a successful buy(u, c).  After its COMMIT coin c, which
\* had no owner at BEGIN, has owner u and is otherwise as it was, every other
\* coin row is as it was at BEGIN, and the transactions are those at BEGIN
\* plus one row (coin c, buyer u, no seller, amount = the stored value of c).
C5_BuyPost ==
    \A r \in Reqs :
        req[r].pc = "b_clear" =>
            LET c == req[r].coin_id
                t == Len(saved.transactions) + 1
            IN  /\ c \in DOMAIN saved.coins
                /\ saved.coins[c].client_id = NULL
                /\ coins = [saved.coins EXCEPT ![c].client_id = req[r].userId]
                /\ Len(transactions) = t
                /\ SubSeq(transactions, 1, t - 1) = saved.transactions
                /\ transactions[t].coin_id = c
                /\ transactions[t].buyer_id = req[r].userId
                /\ transactions[t].seller_id = NULL
                /\ transactions[t].amount = saved.coins[c].value

\* Request 2 committed the purchase of coin 2 for client 2 after request 1 had
\* bought coin 1.
C5_Witness ==
    /\ req[2].pc = "b_clear" /\ req[2].coin_id = 2 /\ req[2].userId = 2
    /\ req[1].pc = "done" /\ req[1].resp = PurchasedResp(1)

CoinNotFoundResp ==
    [status |-> 404, message |-> "Coin not found", coin_id |-> NULL]

\* Request r is inside its transaction, about to check the coin, and the next
\* step is not a thrown storage error.
Decides(r) ==
    /\ req[r].pc = "b_select"
    /\ req'[r].pc # "b_select"
    /\ ~(req'[r].pc = "done" /\ req'[r].resp.status = 500)

\* C6: refusals of buy.  A buy whose coin id no coin has is answered 'Coin not
\* found', a buy of a coin with an owner is answered 'Coin already has an
\* owner'; and no step of a buy request up to and including its refusal
\* changes the coins table, the transactions table or either cache.
C6_BuyRefusals ==
    [][\A r \in Reqs :
          /\ Decides(r) =>
                /\ req[r].coin_id \notin DOMAIN coins =>
                      req'[r].pc = "done" /\ req'[r].resp = CoinNotFoundResp
                /\ (req[r].coin_id \in DOMAIN coins
                       /\ coins[req[r].coin_id].client_id # NULL) =>
                      req'[r].pc = "done" /\ req'[r].resp = AlreadyOwnedResp
                /\ req'[r].pc = "done" =>
                      req'[r].resp \in {CoinNotFoundResp, AlreadyOwnedResp}
          /\ (/\ req'[r] # req[r]
              /\ req'[r].kind = "buy"
              /\ req[r].pc \in {"idle", "verify_get", "json", "b_select"}) =>
                UNCHANGED <<coins, transactions, coinCache, transactionCache>>
      ]_vars

\* With both caches filled, one buy was refused for an unknown coin and one
\* for a coin that has an owner.
C6_Witness ==
    /\ coinCache # EmptyCache /\ transactionCache # EmptyCache
    /\ req[1].pc = "done" /\ req[1].kind = "buy" /\ req[1].resp = CoinNotFoundResp
    /\ req[2].pc = "done" /\ req[2].kind = "buy" /\ req[2].coin_id = 3
    /\ req[2].resp = AlreadyOwnedResp

ExhaustionResp ==
    [status |-> 500,
     message |-> "Could not find unique bit combination after many attempts",
     coin_id |-> NULL]

\* C7: full occupancy.  When the coins table holds every triple, a generate
\* that reaches generateUniqueBits ends there with a 500: the exhaustion
\* error (unless the SELECT itself threw), and the coins and transactions
\* tables are after it what they were before its BEGIN.
C7_FullOccupancy ==
    [][\A r \in Reqs :
          (req[r].pc = "g_bits" /\ ExistingCombinations = Triples) =>
              /\ req'[r].pc = "done"
              /\ req'[r].resp.status = 500
              /\ req'[r].resp.message # "g_bits" => req'[r].resp = ExhaustionResp
              /\ coins' = coins /\ transactions' = transactions
              /\ coins = saved.coins /\ transactions = saved.transactions
      ]_vars

\* A generate was answered with the exhaustion error on a full table.
C7_Witness ==
    /\ ExistingCombinations = Triples
    /\ \E r \in Reqs : /\ req[r].pc = "done" /\ req[r].kind = "generate"
                       /\ req[r].resp = ExhaustionResp

\* The coins table as other requests may read it: without the changes of a
\* transaction that is still open.
Committed == IF txActive THEN saved.coins ELSE coins

\* C8: one-way ownership.  In the committed coins table no row disappears, an
\* owner that is set never changes, and an owner changes (from null) only by
\* the COMMIT of a buy of that coin, to the buyer.
C8_OneWay ==
    [][\A c \in DOMAIN Committed :
          /\ c \in DOMAIN Committed'
          /\ Committed[c].client_id # NULL =>
                Committed'[c].client_id = Committed[c].client_id
          /\ Committed'[c].client_id # Committed[c].client_id =>
                \E r \in Reqs : /\ req[r].pc = "b_commit" /\ req'[r].pc = "b_clear"
                                /\ req[r].coin_id = c
                                /\ Committed'[c].client_id = req[r].userId
      ]_vars

\* Coin 2 was bought by request 1, and request 2 then tried to buy it.
C8_Witness ==
    /\ coins[2].client_id # NULL
    /\ req[1].pc = "done" /\ req[1].resp = PurchasedResp(2)
    /\ req[2].pc = "done" /\ req[2].kind = "buy" /\ req[2].coin_id = 2
    /\ req[2].resp = AlreadyOwnedResp

\* Coin rows generate inserted.
GeneratedCoins == (seeded + 1)..Len(coins)

\* C9: a generated coin has an owner in every state in which it exists, and a
\* buy that finds it under its transaction is refused with 'Coin already has
\* an owner' (or ends in the 500 of the catch block when the SELECT throws)
\* and leaves the coins and transactions tables as they were.
C9_GeneratedOwned ==
    /\ [](\A c \in GeneratedCoins : coins[c].client_id # NULL)
    /\ [][\A r \in Reqs :
             (/\ req[r].pc = "b_select"
              /\ req[r].coin_id \in GeneratedCoins
              /\ req'[r].pc # "b_select") =>
                 /\ req'[r].pc = "done"
                 /\ req'[r].resp.status = 500 \/ req'[r].resp = AlreadyOwnedResp
                 /\ coins' = coins /\ transactions' = transactions
         ]_vars

\* Request 1 generated a coin, request 2 (by the creator or by the other
\* client) tried to buy it.
C9_Witness ==
    /\ req[1].pc = "done" /\ req[1].resp = GeneratedResp(seeded + 1)
    /\ req[2].pc = "done" /\ req[2].kind = "buy" /\ req[2].coin_id = seeded + 1
    /\ req[2].resp = AlreadyOwnedResp
    /\ Cardinality(TxOf(seeded + 1)) = 1

\* The latest transaction row of coin c: greatest date, then greatest id.
LatestTx(c) ==
    CHOOSE k \in TxOf(c) :
        \A j \in TxOf(c) :
            \/ transactions[j].transaction_date < transactions[k].transaction_date
            \/ /\ transactions[j].transaction_date = transactions[k].transaction_date
               /\ j <= k

\* C10: owner/ledger consistency.  Between requests, every coin with a
\* transaction row has as owner the buyer of its latest row, and a coin
\* without an owner has no transaction row.
C10_OwnerLedger ==
    Observable =>
        \A c \in DOMAIN coins :
            /\ TxOf(c) # {} => coins[c].client_id = transactions[LatestTx(c)].buyer_id
            /\ coins[c].client_id = NULL => TxOf(c) = {}

\* Between requests, with a bought coin, a generated coin, and the resold
\* seeded coin in the store.
C10_Witness ==
    /\ Observable
    /\ coins[1].client_id = 1 /\ TxOf(1) # {}
    /\ Len(coins) = seeded + 1 /\ coins[seeded + 1].client_id = 2
    /\ Cardinality(TxOf(3)) = 2

\* Rows of the transactions table that generate or buy appended.
AppendedTx == (Len(SeedTransactions) + 1)..Len(transactions)

\* The first transaction row of coin c: least date, then least id.
FirstTx(c) ==
    CHOOSE k \in TxOf(c) :
        \A j \in TxOf(c) :
            \/ transactions[j].transaction_date > transactions[k].transaction_date
            \/ /\ transactions[j].transaction_date = transactions[k].transaction_date
               /\ j >= k

\* C11: every transaction row appended by generate or by buy, committed or
\* not yet, has no seller and has a buyer; so every coin all of whose rows were
\* appended by these operations has a first row without seller.
C11_SellerNull ==
    /\ \A k \in AppendedTx :
          /\ transactions[k].seller_id = NULL
          /\ transactions[k].buyer_id # NULL
    /\ \A c \in DOMAIN coins :
          (TxOf(c) # {} /\ TxOf(c) \subseteq AppendedTx) =>
              transactions[FirstTx(c)].seller_id = NULL

\* A buy of coin 1 and a generate both committed their rows.
C11_Witness ==
    /\ Observable
    /\ Cardinality(AppendedTx) = 2
    /\ TxOf(1) # {} /\ TxOf(1) \subseteq AppendedTx
    /\ TxOf(seeded + 1) # {}
    /\ \E r \in Reqs : req[r].pc = "done" /\ req[r].resp = PurchasedResp(1)
    /\ \E r \in Reqs : req[r].pc = "done" /\ req[r].resp = GeneratedResp(seeded + 1)

\* The transactions table as other requests may read it.
CommittedTx == IF txActive THEN saved.transactions ELSE transactions

\* C12: append-only ledger.  Under every kind of request the committed
\* transactions table only grows at its end (no row deleted or modified), and
\* no committed coin row is deleted or changes its id, triple or value; and an
\* open transaction has only appended rows and set an owner.
C12_AppendOnly ==
    /\ [](txActive =>
            /\ Len(saved.transactions) <= Len(transactions)
            /\ SubSeq(transactions, 1, Len(saved.transactions)) = saved.transactions
            /\ \A c \in DOMAIN saved.coins :
                  /\ c \in DOMAIN coins
                  /\ TripleAt(c) = <<saved.coins[c].bit1, saved.coins[c].bit2,
                                     saved.coins[c].bit3>>
                  /\ coins[c].value = saved.coins[c].value)
    /\ [][/\ Len(CommittedTx) <= Len(CommittedTx')
          /\ SubSeq(CommittedTx', 1, Len(CommittedTx)) = CommittedTx
          /\ \A c \in DOMAIN Committed :
                /\ c \in DOMAIN Committed'
                /\ Committed'[c].bit1 = Committed[c].bit1
                /\ Committed'[c].bit2 = Committed[c].bit2
                /\ Committed'[c].bit3 = Committed[c].bit3
                /\ Committed'[c].value = Committed[c].value
         ]_vars

\* A buy and a generate committed, a transaction was rolled back, and both
\* paginated reads and a history request were answered.
C12_Witness ==
    /\ Observable
    /\ Len(transactions) = Len(SeedTransactions) + 2
    /\ Len(coins) = seeded + 1
    /\ coins[1].client_id # NULL
    /\ coinCache # EmptyCache /\ transactionCache # EmptyCache
    /\ history.n > 0 /\ history.status = 200

ValidValueRequiredResp ==
    [status |-> 400, message |-> "Valid monetary value is required", coin_id |-> NULL]

\* A body whose value is missing, not a number, zero or negative.
BadValue(v) == v.type = "missing" \/ v.type = "string" \/ v.num <= 0

\* C13: validation before mutation.  A generate whose body carries a value
\* that is missing, not a number, zero or negative is answered with the 400
\* validation error in the step that reads the body: no transaction is begun
\* and the coins table, the transactions table and both caches stay as they
\* are; and every coin row generate inserted has value > 0.
C13_ValidatedFirst ==
    /\ [](\A c \in GeneratedCoins : coins[c].value > 0)
    /\ [][\A r \in Reqs : \A v \in BodyValues :
             (BadValue(v) /\ GenBegin(r, v)) =>
                 /\ req'[r].pc = "done"
                 /\ req'[r].resp = ValidValueRequiredResp
                 /\ ~txActive'
                 /\ UNCHANGED <<coins, transactions, coinCache, transactionCache>>
         ]_vars

\* With both caches filled, one generate was rejected by the validation and
\* one inserted a coin.
C13_Witness ==
    /\ coinCache # EmptyCache /\ transactionCache # EmptyCache
    /\ \E r \in Reqs : /\ req[r].pc = "done" /\ req[r].kind = "generate"
                       /\ req[r].resp = ValidValueRequiredResp
    /\ Len(coins) = seeded + 1

\* Some paginated read can be served.
ReadCanRun ==
    ENABLED (\/ \E page \in Pages, pageSize \in PageSizes : GetCoins(page, pageSize)
             \/ \E page \in Pages, pageSize \in PageSizes :
                   GetTransactions(page, pageSize))

\* C14: cache invalidation on mutation.  A buy or generate is answered 200
\* only by the step that clears the caches: that step comes after the COMMIT
\* (no transaction is open, the tables do not change any more), and right
\* after it both caches have no entries; and between the COMMIT and the
\* clearing no paginated read can be served.
C14_ClearedOnSuccess ==
    /\ [](\A r \in Reqs :
            req[r].pc \in {"b_clear", "g_clear"} =>
                running = r /\ ~txActive /\ ~ReadCanRun)
    /\ [][\A r \in Reqs :
             (req[r].pc # "done" /\ req'[r].pc = "done" /\ req'[r].resp.status = 200) =>
                 /\ req[r].pc \in {"b_clear", "g_clear"}
                 /\ coinCache' = EmptyCache /\ transactionCache' = EmptyCache
                 /\ UNCHANGED <<coins, transactions, txActive>>
         ]_vars

\* Request 1 bought coin 1 and cleared the caches, reads filled them again,
\* and request 2 has committed a generate and is about to clear them.
C14_Witness ==
    /\ req[1].pc = "done" /\ req[1].resp = PurchasedResp(1)
    /\ req[2].pc = "g_clear"
    /\ coinCache # EmptyCache /\ transactionCache # EmptyCache

\* The entry of `key` was stored strictly less than CACHE_EXPIRY_TIME ago and
\* the cache was not cleared since.
StoredRecently(cache, key) ==
    key \in DOMAIN cache /\ now < cache[key].timestamp + CACHE_EXPIRY_TIME

\* C15: cache time-to-live.  A paginated read (coins or transactions) that
\* finds an entry for its key stored strictly less than CACHE_EXPIRY_TIME ago
\* leaves the cache as it is (it answers with the entry); any other read
\* re-queries the store and can only end with the entry of its key overwritten
\* by the page just computed and the current time, the other entries kept.
C15_TimeToLive ==
    \A page \in Pages, pageSize \in PageSizes :
        LET coinKey == <<"coins", page, pageSize>>
            txKey == <<"transactions", page, pageSize>>
        IN  /\ StoredRecently(coinCache, coinKey) =>
                  ~ENABLED (GetCoins(page, pageSize) /\ coinCache' # coinCache)
            /\ StoredRecently(transactionCache, txKey) =>
                  ~ENABLED (GetTransactions(page, pageSize)
                               /\ transactionCache' # transactionCache)
            /\ (running = NULL /\ ~StoredRecently(coinCache, coinKey)) =>
                  /\ ENABLED GetCoins(page, pageSize)
                  /\ ~ENABLED (/\ GetCoins(page, pageSize)
                               /\ coinCache' #
                                     MapSet(coinCache, coinKey,
                                            [data |-> CoinsPage(page, pageSize),
                                             timestamp |-> now]))
            /\ (running = NULL /\ ~StoredRecently(transactionCache, txKey)) =>
                  /\ ENABLED GetTransactions(page, pageSize)
                  /\ ~ENABLED (/\ GetTransactions(page, pageSize)
                               /\ \A order \in DateDescOrders :
                                     transactionCache' #
                                        MapSet(transactionCache, txKey,
                                               [data |-> TransactionsPage(page, pageSize,
                                                                           order),
                                                timestamp |-> now]))

\* The coins entry is exactly CACHE_EXPIRY_TIME old (the next read of it
\* re-queries), the transactions entry was stored at the current time.
C15_Witness ==
    /\ running = NULL
    /\ <<"coins", 1, 15>> \in DOMAIN coinCache
    /\ now = coinCache[<<"coins", 1, 15>>].timestamp + CACHE_EXPIRY_TIME
    /\ <<"transactions", 1, 15>> \in DOMAIN transactionCache
    /\ transactionCache[<<"transactions", 1, 15>>].timestamp = now
    /\ now = MaxTime

\* Rows of coin c in the transactions table the last history response was
\* computed from.
HistoryTxOf(c) ==
    {k \in DOMAIN history.at.transactions : history.at.transactions[k].coin_id = c}

\* C16: shape of the history projection.  A 200 response for a coin with n
\* transaction rows has n + 1 events: the rows in ascending date order, the
\* first as 'generated' with owner = its buyer, each later one as 'transfer'
\* with owner = its buyer and previous owner = its seller, and last a
\* 'current' event with the owner of the coin row ('Available for Purchase'
\* for none) and as previous owner the buyer of the last row (null for n = 0).
C16_ProjectionShape ==
    history.status = 200 =>
        LET c == history.coin_id
            coin == history.at.coins[c]
            txs == history.at.transactions
            n == Cardinality(HistoryTxOf(c))
            ev == history.events
        IN  /\ c \in DOMAIN history.at.coins
            /\ Len(ev) = n + 1
            /\ \E p \in [1..n -> HistoryTxOf(c)] :
                  /\ \A i, j \in 1..n : i # j => p[i] # p[j]
                  /\ \A i \in 1..n :
                        /\ ev[i].date = txs[p[i]].transaction_date
                        /\ ev[i].amount = txs[p[i]].amount
                        /\ ev[i].owner_id = txs[p[i]].buyer_id
                        /\ ev[i].type = IF i = 1 THEN "generated" ELSE "transfer"
                        /\ i > 1 => ev[i].previous_owner_id = txs[p[i]].seller_id
                        /\ i > 1 => ev[i - 1].date <= ev[i].date
                        /\ i = n => ev[n + 1].previous_owner_id = txs[p[i]].buyer_id
            /\ ev[n + 1].type = "current"
            /\ ev[n + 1].owner_id = coin.client_id
            /\ coin.client_id = NULL => ev[n + 1].owner_name = "Available for Purchase"
            /\ n = 0 => ev[n + 1].previous_owner_id = NULL

\* The history of the resold coin 3 was answered: generated, transfer,
\* current; a history of a coin without rows was answered before.
C16_Witness ==
    /\ history.n = 2 /\ history.status = 200 /\ history.coin_id = 3
    /\ Len(history.events) = 3
    /\ history.events[2].type = "transfer"
    /\ history.events[2].previous_owner_id = 1

\* C17: history of a freshly generated coin.  A 200 response for a coin that
\* generate inserted has exactly two events, 'generated' then 'current', and
\* both name as owner the client the coin was generated for (the owner of the
\* inserted coin row, the buyer of its mint row); the 'generated' event
\* carries the value as amount.
C17_FreshCoinHistory ==
    (history.status = 200 /\ history.coin_id > seeded) =>
        LET c == history.coin_id
            u == history.at.coins[c].client_id
            ev == history.events
        IN  /\ u \in Clients
            /\ \A k \in HistoryTxOf(c) : history.at.transactions[k].buyer_id = u
            /\ Len(ev) = 2
            /\ ev[1].type = "generated" /\ ev[1].owner_id = u
            /\ ev[1].amount = history.at.coins[c].value
            /\ ev[2].type = "current" /\ ev[2].owner_id = u
            /\ ev[2].owner_name = ClientName(u)

\* Client 2 generated a coin and its history was answered.
C17_Witness ==
    /\ history.status = 200 /\ history.coin_id = seeded + 1
    /\ Len(history.events) = 2
    /\ history.events[1].owner_id = 2 /\ history.events[2].owner_id = 2
    /\ \E r \in Reqs : req[r].pc = "done" /\ req[r].resp = GeneratedResp(seeded + 1)

\* The last event of a history.
LastEvent(events) == events[Len(events)]

\* C18: history after a purchase.  (a) Right after the COMMIT of buy(u2, c) on
\* a coin without owner, the projection of c is a 200 whose last event is
\* 'current' with owner u2, it has one event more than c had rows before the
\* buy plus the current event, and the added event names u2 as owner.  (b)
\* Every history response for a coin that was for sale, computed after its
\* purchase, ends with a 'current' event naming the buyer, who still owns the
\* coin, and the event before it names the buyer too.  (c) A history response
\* for c computed after the purchase has one event more than a response for c
\* computed before it.
C18_HistoryAfterBuy ==
    /\ [](\A r \in Reqs :
            req[r].pc = "b_clear" =>
                \A response \in project(req[r].coin_id) :
                    LET ev == response.events
                        before == {k \in DOMAIN saved.transactions :
                                      saved.transactions[k].coin_id = req[r].coin_id}
                    IN  /\ response.status = 200
                        /\ Len(ev) = (Cardinality(before) + 1) + 1
                        /\ LastEvent(ev).type = "current"
                        /\ LastEvent(ev).owner_id = req[r].userId
                        /\ ev[Len(ev) - 1].owner_id = req[r].userId)
    /\ [](\A c \in ForSale :
            (/\ history.status = 200 /\ history.coin_id = c
             /\ history.at.coins[c].client_id # NULL) =>
                /\ LastEvent(history.events).type = "current"
                /\ LastEvent(history.events).owner_id = history.at.coins[c].client_id
                /\ coins[c].client_id = history.at.coins[c].client_id
                /\ history.events[Len(history.events) - 1].owner_id =
                      history.at.coins[c].client_id)
    /\ [][\A c \in ForSale :
             (/\ history.status = 200 /\ history.coin_id = c
              /\ history.at.coins[c].client_id = NULL
              /\ history'.status = 200 /\ history'.coin_id = c
              /\ history'.at.coins[c].client_id # NULL) =>
                 Len(history'.events) = Len(history.events) + 1
         ]_vars

\* The history of coin 1 was answered twice; the second response, after
\* client 2 bought the coin, has the purchase event and names client 2.
C18_Witness ==
    /\ history.n = 2 /\ history.status = 200 /\ history.coin_id = 1
    /\ Len(history.events) = 2
    /\ history.events[1].owner_id = 2
    /\ history.events[2].type = "current" /\ history.events[2].owner_id = 2
    /\ \E r \in Reqs : req[r].pc = "done" /\ req[r].resp = PurchasedResp(1)

\* C19: the history projection is a pure read.  A history request leaves the
\* coins table, the transactions table, the connection and both caches as
\* they are, whatever it answers; unless a query throws, it answers 404 'Coin
\* not found' without events for an id no coin has and 200 for the id of a
\* coin; and two requests for the same coin with the same tables get the same
\* events.
C19_PureRead ==
    [][history' # history =>
          /\ UNCHANGED <<coins, transactions, txActive, saved, coinCache,
                         transactionCache>>
          /\ (history'.status # 500 /\ history'.coin_id # NaN) =>
                IF history'.coin_id \in DOMAIN coins
                THEN history'.status = 200
                ELSE /\ history'.status = 404
                     /\ history'.message = "Coin not found"
                     /\ history'.events = <<>>
          /\ (/\ history.n > 0 /\ history.coin_id = history'.coin_id
              /\ history.at = history'.at
              /\ history.status # 500 /\ history'.status # 500) =>
                /\ history'.status = history.status
                /\ history'.events = history.events
      ]_vars

\* With both caches filled, the history of an id no coin has was asked for
\* twice and answered 404.
C19_Witness ==
    /\ history.n = 2 /\ history.status = 404
    /\ history.coin_id \notin DOMAIN coins
    /\ coinCache # EmptyCache /\ transactionCache # EmptyCache

\* C20: no-collision draw.  Every triple generateUniqueBits can return has
\* its three components in 1..BitMax and is the triple of no row of the coins
\* table it read; and the triple a generate holds after the call is such a
\* triple with respect to the table of its transaction, which no one changed
\* since BEGIN.
C20_NoCollision ==
    /\ \A out \in generateUniqueBits \ {Throw} :
          /\ \A i \in 1..3 : out[i] \in 1..BitMax
          /\ \A c \in DOMAIN coins : TripleAt(c) # out
    /\ \A r \in Reqs :
          req[r].pc = "g_coin" =>
              /\ \A i \in 1..3 : req[r].bits[i] \in 1..BitMax
              /\ \A c \in DOMAIN coins : TripleAt(c) # req[r].bits
              /\ coins = saved.coins

\* A second generate drew its triple from a table in which only one triple
\* was left free.
C20_Witness ==
    /\ req[2].pc = "g_coin"
    /\ Len(coins) = MAX_COMBINATIONS - 1
    /\ req[1].pc = "done" /\ req[1].resp = GeneratedResp(MAX_COMBINATIONS - 1)

\* C21: bounded draw loop.  On every set of existing triples, the full set
\* included, the loop makes at most MAX_ATTEMPTS + 1 draws and ends: with bits
\* no coin has, drawn within MAX_ATTEMPTS attempts and among the results
\* generateUniqueBits has on that table, or, on the draw after the MAX_ATTEMPTS-th
\* one, with the exhaustion error.
C21_DrawTerminates ==
    /\ [](req[1].attempts <= MAX_ATTEMPTS)
    /\ [](req[1].pc = "g_coin" =>
            /\ req[1].bits \in Triples \ ExistingCombinations
            /\ req[1].bits \in generateUniqueBits
            /\ req[1].attempts \in 1..MAX_ATTEMPTS)
    /\ [][(req[1].pc = "g_draw" /\ req'[1].pc = "done") =>
             /\ req[1].attempts = MAX_ATTEMPTS
             /\ req'[1].resp = ExhaustionResp
             /\ Throw \in generateUniqueBits
         ]_vars
    /\ <>(req[1].pc \in {"g_coin", "done"})

\* On the full table the loop ended with the exhaustion error.
C21_Witness ==
    /\ ExistingCombinations = Triples
    /\ req[1].pc = "done" /\ req[1].resp = ExhaustionResp
    /\ coins = TableUpTo(Triples, MAX_COMBINATIONS)

\* C22: exhaustion check.  A 200 response of the available-combinations read
\* carries used = the number of coin rows at the time of the read, total =
\* MAX_COMBINATIONS, and available = false exactly when used >= total.
C22_ExhaustionCheck ==
    /\ [](combinations.status = 200 =>
            /\ combinations.total = BitMax * BitMax * BitMax
            /\ combinations.used \in seeded..combinations.total
            /\ combinations.available <=> combinations.used < combinations.total
            /\ ~combinations.available <=> combinations.used >= combinations.total)
    /\ [][(combinations' # combinations /\ combinations'.status = 200) =>
             /\ combinations'.used = Len(coins)
             /\ UNCHANGED <<coins, transactions>>
         ]_vars

\* The read answered available = false after a generate had filled the last
\* free triple.
C22_Witness ==
    /\ combinations.status = 200 /\ ~combinations.available
    /\ combinations.used = MAX_COMBINATIONS
    /\ seeded < MAX_COMBINATIONS
    /\ \E r \in Reqs : req[r].pc = "done" /\ req[r].resp = GeneratedResp(MAX_COMBINATIONS)

\* Some generate was answered with the exhaustion error.
ExhaustionSeen ==
    \E g \in Reqs : /\ req[g].pc = "done" /\ req[g].kind = "generate"
                     /\ req[g].resp = ExhaustionResp

\* The statement after position pc in the block of buy.
AfterBuyStep(pc) ==
    CASE pc = "b_select" -> "b_update"
      [] pc = "b_update" -> "b_insert"
      [] pc = "b_insert" -> "b_commit"
      [] pc = "b_commit" -> "b_clear"
      [] OTHER -> "done"

\* C23: usable after failures.  Whenever a handler returns (200, 404, 400,
\* exhaustion or storage error) no transaction is open and no request is
\* inside its block; between requests a paginated read can be served; a buy
\* that passed its validation always gets its BEGIN through; and once a
\* generate has failed with the exhaustion error, a buy of an existing coin
\* without owner goes through its block statement by statement to the 200
\* response unless a statement throws.
C23_UsableAfterFailure ==
    /\ [](Observable => (~txActive /\ ReadCanRun))
    /\ [][\A r \in Reqs :
             (req[r].pc # "done" /\ req'[r].pc = "done") =>
                 (~txActive' /\ running' = NULL)
         ]_vars
    /\ [][\A r \in Reqs : \A coinId \in BuyTargets \ {NULL} :
             BuyBegin(r, coinId) => (req'[r].pc = "b_select" /\ txActive')
         ]_vars
    /\ [][\A r \in Reqs :
             (/\ ExhaustionSeen
              /\ req[r].pc \in {"b_select", "b_update", "b_insert", "b_commit", "b_clear"}
              /\ req[r].coin_id \in DOMAIN coins
              /\ req[r].pc = "b_select" => coins[req[r].coin_id].client_id = NULL
              /\ req'[r] # req[r]
              /\ ~(req'[r].pc = "done" /\ req'[r].resp.status = 500)) =>
                 /\ req'[r].pc = AfterBuyStep(req[r].pc)
                 /\ req'[r].pc = "done" => req'[r].resp = PurchasedResp(req[r].coin_id)
         ]_vars

\* Request 1, a generate, failed with the exhaustion error; request 2 then
\* bought coin 1, and both paginated reads were served after that.
C23_Witness ==
    /\ req[1].pc = "done" /\ req[1].kind = "generate" /\ req[1].resp = ExhaustionResp
    /\ req[2].pc = "done" /\ req[2].resp = PurchasedResp(1)
    /\ coinCache # EmptyCache /\ transactionCache # EmptyCache
    /\ ~txActive

\* Request r takes the step.
StepOf(r) == req'[r] # req[r]

\* C24: authorization gate.  A step of a buy or generate request changes the
\* coins table, the transactions table or a cache only when the request has
\* passed verifyToken with a token of the auth_tokens table, and then holds
\* the client of that token as userId; verifyToken lets a request pass only
\* with a token the table held and that is not past its expiry at that time;
\* every owner set and every buyer inserted is that userId; and a request
\* without Bearer token, with an unknown token or with an expired token is
\* answered 401 with tables and caches as they were.
C24_AuthorizationGate ==
    [][\A r \in Reqs :
          StepOf(r) =>
              /\ ~UNCHANGED <<coins, transactions, coinCache, transactionCache>> =>
                    /\ req[r].pc \notin {"idle", "verify_get"}
                    /\ req[r].token \in IssuedTokens
                    /\ req[r].userId = SeedTokens[req[r].token].client_id
              /\ (req[r].pc = "verify_get" /\ req'[r].pc # "done") =>
                    /\ req[r].token \in IssuedTokens
                    /\ req[r].userId = SeedTokens[req[r].token].client_id
                    /\ now <= SeedTokens[req[r].token].expires_at
                    /\ req'[r].userId = req[r].userId
              /\ (/\ req[r].pc = "verify_get"
                  /\ \/ req[r].token \notin IssuedTokens
                     \/ now > SeedTokens[req[r].token].expires_at) =>
                    (req'[r].pc = "done" /\ req'[r].resp.status = 401)
              /\ (req[r].pc = "idle" /\ req'[r].pc = "done") =>
                    req'[r].resp.status = 401
              /\ (req'[r].pc = "done" /\ req'[r].resp.status = 401) =>
                    UNCHANGED <<coins, transactions, coinCache, transactionCache,
                                txActive>>
              /\ req'[r].pc # "done" =>
                    /\ \A c \in DOMAIN coins' :
                          (c \notin DOMAIN coins
                             \/ coins'[c].client_id # coins[c].client_id) =>
                              coins'[c].client_id = req[r].userId
                    /\ \A k \in DOMAIN transactions' \ DOMAIN transactions :
                          transactions'[k].buyer_id = req[r].userId
      ]_vars

\* A request with the expired token t2 was answered 401 and the token was
\* deleted; a request with t1 is past its COMMIT, with client 1 as the owner
\* of coin 1; both caches are filled.
C24_Witness ==
    /\ req[1].pc = "done" /\ req[1].resp.status = 401
    /\ "t2" \notin DOMAIN auth_tokens
    /\ req[2].pc = "b_clear" /\ req[2].token = "t1" /\ req[2].coin_id = 1
    /\ coins[1].client_id = 1
    /\ coinCache # EmptyCache /\ transactionCache # EmptyCache

\* The (triple, identity) pairs of the rows a cache holds, each with the time
\* the page was computed, the owner and the value that the row shows.
CachedCoinIdentities ==
    UNION {{[bits |-> <<coinCache[k].data.coins[i].bit1,
                        coinCache[k].data.coins[i].bit2,
                        coinCache[k].data.coins[i].bit3>>,
             identity |-> coinCache[k].data.coins[i].computedBitSlow,
             at |-> coinCache[k].timestamp,
             owner |-> coinCache[k].data.coins[i].client_id,
             value |-> coinCache[k].data.coins[i].value] :
                i \in DOMAIN coinCache[k].data.coins} : k \in DOMAIN coinCache}

CachedTransactionIdentities ==
    UNION {{[bits |-> <<transactionCache[k].data.transactions[i].bit1,
                        transactionCache[k].data.transactions[i].bit2,
                        transactionCache[k].data.transactions[i].bit3>>,
             identity |-> transactionCache[k].data.transactions[i].computedBitSlow,
             at |-> transactionCache[k].timestamp,
             owner |-> transactionCache[k].data.transactions[i].buyer_id,
             value |-> transactionCache[k].data.transactions[i].value] :
                i \in DOMAIN transactionCache[k].data.transactions} :
           k \in DOMAIN transactionCache}

C26_ExhaustionOnlyWhenFull ==
    \A r \in Reqs :
        (req[r].pc = "done" /\ req[r].resp = ExhaustionResp) =>
            ExistingCombinations = Triples

\* C26 as amended: the exhaustion error arises only when the draw budget is
\* spent on collisions.  A draw within the first MAX_ATTEMPTS never throws: it
\* ends the loop with its triple when no coin has that triple and goes round
\* again when a coin has it; the error comes on the draw after MAX_ATTEMPTS
\* draws that all hit assigned triples, so never on an empty table, and it
\* leaves the coins table as it was.
C26_ExhaustionAfterBudget ==
    /\ [](\A r \in Reqs :
            /\ (req[r].pc = "g_draw" /\ req[r].attempts > 0) =>
                  req[r].bits \in ExistingCombinations
            /\ (req[r].pc = "done" /\ req[r].resp = ExhaustionResp) =>
                  ExistingCombinations # {})
    /\ [][\A r \in Reqs :
            (req[r].pc = "g_draw" /\ req'[r] # req[r]) =>
                /\ req[r].attempts < MAX_ATTEMPTS =>
                      /\ req'[r].pc \in {"g_draw", "g_coin"}
                      /\ req'[r].attempts = req[r].attempts + 1
                      /\ req'[r].pc = "g_coin" <=>
                            req'[r].bits \notin ExistingCombinations
                /\ req[r].attempts >= MAX_ATTEMPTS =>
                      /\ req[r].attempts = MAX_ATTEMPTS
                      /\ req'[r].pc = "done"
                      /\ req'[r].resp = ExhaustionResp
                      /\ coins' = coins /\ transactions' = transactions
       ]_vars

\* The loop ended with the exhaustion error on a table that leaves two triples
\* free.
C26_Witness ==
    /\ req[1].pc = "done" /\ req[1].resp = ExhaustionResp
    /\ Cardinality(Triples \ ExistingCombinations) = 2
    /\ txActive = FALSE

\* Reads of more than one page: with one row a page, the first and the second
\* page, the first one asked for as page 0 (read as page 1, under a key of its own).
KeyPages == {0, 2}
KeyPageSizes == {1}

NextPages ==
    \/ Next
    \/ \E page \in KeyPages, pageSize \in KeyPageSizes : GetCoins(page, pageSize)
    \/ \E page \in KeyPages, pageSize \in KeyPageSizes :
          GetTransactions(page, pageSize)

\* The ledger with paginated reads of several pages.
SpecPages == Init /\ [][NextPages]_vars

\* Every entry of the coin cache is the page its key asks for, computed from
\* the store as it is now.
CoinCacheCurrent ==
    \A k \in DOMAIN coinCache : coinCache[k].data = CoinsPage(k[2], k[3])

\* Every entry of the transaction cache is the page its key asks for, computed
\* from the store as it is now (in one of the orders the query may return).
TransactionCacheCurrent ==
    \A k \in DOMAIN transactionCache :
        \E order \in DateDescOrders :
            transactionCache[k].data = TransactionsPage(k[2], k[3], order)

\* C27: cache coherence.  Whenever a paginated read can be served (no buy or
\* generate is between its BEGIN and its cache clearing), every entry of the
\* coin cache and of the transaction cache equals what its query returns
\* against the current store; a step that changes the coins or transactions
\* table stores nothing into a cache, a step that stores an entry stores the
\* page of the current store under the key of its query, and the step that
\* answers a committed buy or generate leaves both caches empty.
C27_CacheCoherence ==
    /\ [](ReadCanRun => (CoinCacheCurrent /\ TransactionCacheCurrent))
    /\ [][/\ (coins' # coins \/ transactions' # transactions) =>
                UNCHANGED <<coinCache, transactionCache>>
          /\ \A k \in DOMAIN coinCache' :
                (k \notin DOMAIN coinCache \/ coinCache'[k] # coinCache[k]) =>
                    /\ coinCache'[k] = [data |-> CoinsPage(k[2], k[3]),
                                        timestamp |-> now]
                    /\ UNCHANGED <<coins, transactions>>
          /\ \A k \in DOMAIN transactionCache' :
                (k \notin DOMAIN transactionCache
                   \/ transactionCache'[k] # transactionCache[k]) =>
                    /\ \E order \in DateDescOrders :
                          transactionCache'[k] =
                             [data |-> TransactionsPage(k[2], k[3], order),
                              timestamp |-> now]
                    /\ UNCHANGED <<coins, transactions>>
          /\ \A r \in Reqs :
                (req[r].pc \in {"b_clear", "g_clear"} /\ req'[r].pc = "done") =>
                    coinCache' = EmptyCache /\ transactionCache' = EmptyCache
         ]_vars

\* Request 1 bought coin 1 and cleared the caches; reads filled them again:
\* the coin page asked for as page 0 shows coin 1 with its new owner, the
\* second coin page shows coin 2, the transaction cache holds both pages with
\* the purchase counted, and the other request waits for its body.
C27_Witness ==
    /\ req[1].pc = "done" /\ req[1].resp = PurchasedResp(1)
    /\ DOMAIN coinCache = {<<"coins", 0, 1>>, <<"coins", 2, 1>>}
    /\ coinCache[<<"coins", 0, 1>>].data.coins[1].coin_id = 1
    /\ coinCache[<<"coins", 0, 1>>].data.coins[1].client_id # NULL
    /\ coinCache[<<"coins", 2, 1>>].data.coins[1].coin_id = 2
    /\ DOMAIN transactionCache = {<<"transactions", 0, 1>>, <<"transactions", 2, 1>>}
    /\ \A k \in DOMAIN transactionCache :
          transactionCache[k].data.total = Len(transactions)
    /\ req[2].pc = "json"

\* The step is the COMMIT of request r's buy or generate.
Commits(r) ==
    /\ req[r].pc \in {"b_commit", "g_commit"}
    /\ req'[r].pc \in {"b_clear", "g_clear"}
    /\ txActive /\ ~txActive'

\* C28: logout is final for mutations.  No buy or generate commits with a
\* token that a logout has removed from auth_tokens before the COMMIT,
\* wherever the logout fell among the awaits of the request.
C28_LogoutFinal ==
    [][\A r \in Reqs :
          Commits(r) => req[r].token \in DOMAIN auth_tokens
      ]_vars

\* C29: failure before BEGIN.  A buy or generate that fails while it waits
\* for its body (req.json() rejects) is answered with the 500 response of its
\* own catch block, whose ROLLBACK does not throw, and the step leaves the
\* coins and transactions tables and both caches as they were.
C29_FailsBeforeBegin ==
    [][\A r \in Reqs :
          (req[r].pc = "json" /\ req'[r].pc = "done" /\ req'[r].resp.status = 500) =>
              /\ req'[r].resp # UnhandledRejection
              /\ req'[r].resp = IF req[r].kind = "buy"
                                THEN ServerErrorDuringPurchase
                                ELSE ErrorGeneratingCoin("Unexpected token")
              /\ UNCHANGED <<coins, transactions, coinCache, transactionCache>>
      ]_vars

\* The transaction rows of coin c.
RowsOfCoin(c) == {k \in DOMAIN transactions : transactions[k].coin_id = c}

\* C30: no resale path.  From a store in which no coin has a transaction,
\* generate and buy requests in any interleaving (failed ones included) leave
\* every coin with at most one transaction row, no row with a seller, and no
\* history response with a 'transfer' event; a coin gets its row by the
\* request that makes its owner.
C30_NoResale ==
    /\ [](\A c \in DOMAIN coins : Cardinality(RowsOfCoin(c)) <= 1)
    /\ [](\A k \in DOMAIN transactions :
            /\ transactions[k].seller_id = NULL
            /\ ~txActive => coins[transactions[k].coin_id].client_id =
                                transactions[k].buyer_id)
    /\ [](history.status = 200 =>
            /\ Len(history.events) \in {1, 2}
            /\ \A i \in DOMAIN history.events :
                  history.events[i].type # "transfer")

\* Coin 1 was bought and a coin was generated, each has its one row; the
\* seeded coin 3 has an owner and no row; the history of coin 1 was asked for
\* after the purchase and shows the 'generated' event and the current one.
C30_Witness ==
    /\ Cardinality(RowsOfCoin(1)) = 1
    /\ Len(coins) = seeded + 1 /\ Cardinality(RowsOfCoin(seeded + 1)) = 1
    /\ coins[3].client_id # NULL /\ RowsOfCoin(3) = {}
    /\ history.status = 200 /\ history.coin_id = 1
    /\ Len(history.events) = 2
    /\ history.events[1].type = "generated"
    /\ history.events[2].type = "current"

====
